---- MODULE Spec2Model ----
(***************************************************************************)
(* Model of musicbot/socket_server.py (class SocketServer): the accepter   *)
(* thread, one connection_maintainer thread per accepted socket, the three *)
(* registry dictionaries, register_handler, the broadcaster thread of      *)
(* _broadcast_information, broadcast_message and the engine's event loop   *)
(* that run_coroutine_threadsafe submits to; and of                        *)
(* giesela/permission/decorators.py: has_permission and                    *)
(* get_decorated_permissions on functions and Commands.                    *)
(*                                                                         *)
(* A message body is modelled by the list msg.split(";") produces from it, *)
(* so "ping" is <<"ping">> and "REQUEST;r1;u1" is <<"REQUEST","r1","u1">>. *)
(* Python dictionaries keep insertion order; each one is a sequence of     *)
(* <<key, value>> pairs.                                                   *)
(*                                                                         *)
(* Socket environment: a frame is delivered to a session only while the    *)
(* peer is alive, so a reply sent while handling it succeeds; sendall      *)
(* raises on a socket that was closed or whose peer has reset the          *)
(* connection.                                                             *)
(***************************************************************************)
EXTENDS Integers, Sequences, FiniteSets, TLC

(* ---------------------------- bounds ----------------------------------- *)

\* number of client sockets the accepter ever accepts in a behaviour
MaxConns == 3

\* number of external events in a behaviour: a frame from a client, a
\* connection reset by a client, a failed accept, a register_handler call,
\* a shutdown call, a change of a player by the engine
MaxEvents == 3

\* number of Command objects created in a behaviour
MaxCommands == 2

(* ------------------------ program constants ---------------------------- *)

\* self.max_connections: the attribute's default is 10; the model runs the
\* server with the ceiling set to 2 so that the ceiling is reached
max_connections == 2

USER_IDENTIFICATION == "USER_IDENTIFICATION"

\* a local variable of connection_maintainer that was never assigned
Unbound == "<unbound>"

\* register_handler's sck = None
None == 0

Conns == 1..MaxConns

(* --------------------------- input sets -------------------------------- *)

Rooms == {"r1"}

\* "u1_r1" is the key connection_maintainer builds for user u1 in room r1
Users == {"u1", "u1_r1"}

\* tokens as passed to register_handler
Tokens == {"ab", "AB", "cd"}

\* tokens as sent by a client
ClientTokens == {"AB"}

\* the functions has_permission and command() are applied to
Functions == 1..2

\* the argument tuples *permissions of the model, of the permissions
\* perm_tree.admin.control.shutdown and perm_tree.admin.control.execute
PermissionArgs ==
    {<<>>, <<"shutdown">>, <<"execute">>, <<"shutdown", "execute">>,
     <<"execute", "execute">>}

\* str.lower() on the strings of the model
Lower(s) ==
    CASE s = "AB" -> "ab"
      [] s = "USER_IDENTIFICATION" -> "user_identification"
      [] OTHER -> s

\* float(s) raises ValueError unless s spells a number
IsFloat(s) == s \in {"0.7", "1.523"}

\* float(s), in thousandths
Float(s) ==
    CASE s = "0.7" -> 700
      [] s = "1.523" -> 1523
      [] OTHER -> 0

\* round(v, 2) of a value held in thousandths (no value of the model is a tie)
Round2(v) == ((v + 5) \div 10) * 10

\* str(x) of a float held in thousandths
Str(x) ==
    CASE x = 500 -> "0.5"
      [] x = 700 -> "0.7"
      [] x = 1520 -> "1.52"
      [] x = 1523 -> "1.523"
      [] OTHER -> "0.0"

\* VolStr without the rounding
VolStr_raw(v) == Str(v)

\* str(round(player.volume, 2))
VolStr(v) == Str(Round2(v))

(* --------------------------- dictionaries ------------------------------ *)

DictHas(d, k) == \E i \in 1..Len(d) : d[i][1] = k

DictGet(d, k) == d[CHOOSE i \in 1..Len(d) : d[i][1] = k][2]

\* d[k] = v
DictSet(d, k, v) ==
    IF DictHas(d, k)
    THEN [i \in 1..Len(d) |-> IF d[i][1] = k THEN <<k, v>> ELSE d[i]]
    ELSE Append(d, <<k, v>>)

\* d.pop(k, None)
DictPop(d, k) == SelectSeq(d, LAMBDA e : e[1] # k)

DictKeys(d) == {d[i][1] : i \in 1..Len(d)}

DictValues(d) == {d[i][2] : i \in 1..Len(d)}

\* list.remove(x): removes the first element equal to x
ListRemove(l, x) ==
    IF \E i \in 1..Len(l) : l[i] = x
    THEN LET k == CHOOSE i \in 1..Len(l) : l[i] = x /\ \A j \in 1..(i-1) : l[j] # x
         IN  SubSeq(l, 1, k-1) \o SubSeq(l, k+1, Len(l))
    ELSE l

(* ----------------------------- frames ---------------------------------- *)

\* "{}=={}".format(len(response), response)
Encode(response) == ToString(Len(response)) \o "==" \o response

\* number of bytes str.encode("utf-8") yields for one character: the
\* characters of the model outside ASCII are below U+0800
Utf8Width(ch) == IF ch \in {"é"} THEN 2 ELSE 1

\* len(text.encode("utf-8")): the number of bytes sendall is handed
RECURSIVE Utf8Len(_)
Utf8Len(text) ==
    IF Len(text) = 0 THEN 0
    ELSE Utf8Width(SubSeq(text, 1, 1)) + Utf8Len(SubSeq(text, 2, Len(text)))

\* the bodies a client sends; <<"">> is the empty read
TerminalBodies == {<<"exit">>, <<"sdown">>, <<"">>}

MalformedFrames == {<<"REQUEST">>, <<"REQUEST", "r1">>}

RequestFrames ==
    {<<"REQUEST", "r1", u>> : u \in Users}
    \cup {<<"REQUEST", "r1", "u1", "SEND_INFORMATION">>}
    \cup {<<"REQUEST", USER_IDENTIFICATION, t>> : t \in ClientTokens}

CommandFrames ==
    {<<"COMMAND", "r1", "u1">>}
    \cup {<<"COMMAND", "r1", "u1", v>> :
             v \in {"SUMMON", "PLAY_PAUSE", "SKIP", "VOLUMECHANGE", "PLAY", "RADIO"}}
    \cup {<<"COMMAND", "r1", "u1", "VOLUMECHANGE", x>> :
             x \in {"0.7", "1.523", "abc"}}
    \cup {<<"COMMAND", "r1", "u1", "PLAY", "url">>,
          <<"COMMAND", "r1", "u1", "RADIO", "station">>}

Frames == TerminalBodies \cup {<<"ping">>} \cup MalformedFrames
          \cup RequestFrames \cup CommandFrames

(* ----------------------------- state ----------------------------------- *)

VARIABLES
    connections,            \* self.connections: sockets in append order
    server_ids,             \* self.server_ids: socket -> server id
    sockets_by_user,        \* self.sockets_by_user: author id -> socket
    awaiting_registeration, \* self.awaiting_registeration: socket -> token
    stop_threads,           \* self.stop_threads
    players,                \* self.musicbot.players: server id -> player
    accPc,                  \* connection_accepter: "loop" (at the loop head),
                            \* "accept" (in main_socket.accept), "sleep" (in
                            \* time.sleep), "append" (thread started, socket
                            \* not appended yet), "stopped" (the loop ended)
    accSock,                \* its local connected_socket
    nextConn,               \* number of sockets accepted so far
    pc,                     \* connection_maintainer, per socket: "none" (not
                            \* accepted), "loop" (at the loop head), "recv"
                            \* (in c_socket.recv), "done" (the function
                            \* returned), "crashed" (the loop body raised),
                            \* "aborted" (the code after the loop raised)
    author_id,              \* its local author_id
    server_id,              \* its local server_id
    peer,                   \* the client end: "alive" or "reset"
    closeCalls,             \* number of c_socket.close() calls, per socket
    lastSent,               \* the frames the last step passed to sendall
    lastCalls,              \* the engine calls it made
    result,                 \* what its register_handler call returned
    loopQueue,              \* the coroutines handed to the engine's event
                            \* loop by run_coroutine_threadsafe and not run yet
    bPc,                    \* the thread of _broadcast_information: "idle"
                            \* (not started), "iter" (at the head of the for
                            \* loop), "sending" (in sock.sendall), "done" (the
                            \* function returned), "RuntimeError" (the
                            \* iteration raised), "raised" (the except clause
                            \* re-raised the error of sendall)
    bIdx,                   \* number of items the iteration has yielded
    bSize,                  \* the size of server_ids when the iteration began
    bOut,                   \* the frame being sent: [to, room, frame]
    bSent,                  \* the frames the pass has sent
    nEvents,                \* number of external events so far
    objects                 \* the objects has_permission decorates: the
                            \* __dict__ of every function, and the callback
                            \* and __dict__ of every Command

vars == <<connections, server_ids, sockets_by_user, awaiting_registeration,
          stop_threads, players, accPc, accSock, nextConn, pc, author_id,
          server_id, peer, closeCalls, lastSent, lastCalls,
          result, loopQueue, bPc, bIdx, bSize, bOut, bSent, nEvents,
          objects>>

registry == <<server_ids, sockets_by_user, awaiting_registeration>>

\* the engine's event loop
engine == <<loopQueue>>

\* the thread threaded_broadcast_information starts
bcast == <<bPc, bIdx, bSize, bOut, bSent>>

\* bOut while the thread is not in sendall
NoFrame == [to |-> None, room |-> "", frame |-> ""]

\* a player of musicbot.players; bound = FALSE: the key is not in the dict
NoPlayer == [bound |-> FALSE, state |-> "stopped", entry |-> "None", volume |-> 500]

\* the players the engine may hold for a server
PlayerStates ==
    {NoPlayer,
     [bound |-> TRUE, state |-> "stopped", entry |-> "None", volume |-> 500],
     [bound |-> TRUE, state |-> "playing", entry |-> "URLPlaylistEntry", volume |-> 500],
     [bound |-> TRUE, state |-> "paused", entry |-> "URLPlaylistEntry", volume |-> 500]}

Init ==
    /\ connections = <<>>
    /\ server_ids = <<>>
    /\ sockets_by_user = <<>>
    /\ awaiting_registeration = <<>>
    /\ stop_threads = FALSE
    /\ players = [r \in Rooms |-> NoPlayer]
    /\ accPc = "loop"
    /\ accSock = None
    /\ nextConn = 0
    /\ pc = [c \in Conns |-> "none"]
    /\ author_id = [c \in Conns |-> Unbound]
    /\ server_id = [c \in Conns |-> Unbound]
    /\ peer = [c \in Conns |-> "alive"]
    /\ closeCalls = [c \in Conns |-> 0]
    /\ lastSent = <<>>
    /\ lastCalls = <<>>
    /\ result = "none"
    /\ loopQueue = <<>>
    /\ bPc = "idle"
    /\ bIdx = 0
    /\ bSize = 0
    /\ bOut = NoFrame
    /\ bSent = <<>>
    /\ nEvents = 0
    /\ objects = [functions |-> [f \in Functions |-> <<>>], commands |-> <<>>]

(* ------------------------ connection_accepter -------------------------- *)

\* the record of what the last step did
trace == <<lastSent, lastCalls, result>>

\* a step that sends no frame and calls neither the engine nor
\* register_handler
Quiet == lastSent' = <<>> /\ lastCalls' = <<>> /\ result' = "none"

\* AtCapacity with > in place of >=
AtCapacity_off == Len(connections) > max_connections

\* len(self.connections) >= self.max_connections
AtCapacity == Len(connections) >= max_connections

\* ListenerDown for a shutdown() that only sets the flag
ListenerDown_open == FALSE

\* shutdown() has shut the listening socket down and closed it: an accept()
\* in progress or begun later raises
ListenerDown == stop_threads

\* the else branch of the capacity test: the thread enters main_socket.accept()
AccepterEnter ==
    /\ accPc = "loop"
    /\ ~stop_threads
    /\ ~AtCapacity
    /\ accPc' = "accept"
    /\ Quiet
    /\ UNCHANGED <<connections, registry, stop_threads, players, accSock,
                   nextConn, pc, author_id, server_id, peer, closeCalls,
                   nEvents, engine>>
    /\ UNCHANGED bcast
    /\ UNCHANGED objects

\* main_socket.accept() returns the socket of a new client and the thread
\* of the session is started
AccepterAccept ==
    /\ accPc = "accept"
    /\ ~ListenerDown
    /\ nextConn < MaxConns
    /\ nextConn' = nextConn + 1
    /\ accSock' = nextConn + 1
    /\ accPc' = "append"
    /\ pc' = [pc EXCEPT ![nextConn + 1] = "loop"]
    /\ Quiet
    /\ UNCHANGED <<connections, registry, stop_threads, players, author_id,
                   server_id, peer, closeCalls, nEvents, engine>>
    /\ UNCHANGED bcast
    /\ UNCHANGED objects

\* main_socket.accept() raises, because the listening socket was shut down
\* or because the connection being accepted failed: except: continue
AccepterAcceptError ==
    /\ accPc = "accept"
    /\ ListenerDown \/ nEvents < MaxEvents
    /\ nEvents' = IF ListenerDown THEN nEvents ELSE nEvents + 1
    /\ accPc' = "loop"
    /\ Quiet
    /\ UNCHANGED <<connections, registry, stop_threads, players, accSock,
                   nextConn, pc, author_id, server_id, peer, closeCalls, engine>>
    /\ UNCHANGED bcast
    /\ UNCHANGED objects

\* self.connections.append((thread, connected_socket, connected_address))
AccepterAppend ==
    /\ accPc = "append"
    /\ connections' = Append(connections, accSock)
    /\ accPc' = "loop"
    /\ Quiet
    /\ UNCHANGED <<registry, stop_threads, players, accSock, nextConn, pc,
                   author_id, server_id, peer, closeCalls, nEvents, engine>>
    /\ UNCHANGED bcast
    /\ UNCHANGED objects

\* the capacity test holds: the thread enters time.sleep(5)
AccepterSleep ==
    /\ accPc = "loop"
    /\ ~stop_threads
    /\ AtCapacity
    /\ accPc' = "sleep"
    /\ Quiet
    /\ UNCHANGED <<connections, registry, stop_threads, players, accSock,
                   nextConn, pc, author_id, server_id, peer, closeCalls,
                   nEvents, engine>>
    /\ UNCHANGED bcast
    /\ UNCHANGED objects

\* time.sleep(5) returns
AccepterWake ==
    /\ accPc = "sleep"
    /\ accPc' = "loop"
    /\ Quiet
    /\ UNCHANGED <<connections, registry, stop_threads, players, accSock,
                   nextConn, pc, author_id, server_id, peer, closeCalls,
                   nEvents, engine>>
    /\ UNCHANGED bcast
    /\ UNCHANGED objects

\* while not self.stop_threads: the loop ends
AccepterStop ==
    /\ accPc = "loop"
    /\ stop_threads
    /\ accPc' = "stopped"
    /\ Quiet
    /\ UNCHANGED <<connections, registry, stop_threads, players, accSock,
                   nextConn, pc, author_id, server_id, peer, closeCalls,
                   nEvents, engine>>
    /\ UNCHANGED bcast
    /\ UNCHANGED objects

\* shutdown(): sets the flag and closes the listening socket
Shutdown ==
    /\ ~stop_threads
    /\ nEvents < MaxEvents
    /\ nEvents' = nEvents + 1
    /\ stop_threads' = TRUE
    /\ lastSent' = <<>>
    /\ lastCalls' = <<>>
    /\ result' = "none"
    /\ UNCHANGED <<connections, registry, players, accPc, accSock, nextConn,
                   pc, author_id, server_id, peer, closeCalls>>
    /\ UNCHANGED bcast
    /\ UNCHANGED objects
    /\ UNCHANGED engine

\* the engine, on its own loop, creates, drops or changes the player of a server
EngineChange(r, p) ==
    /\ players[r] # p
    /\ nEvents < MaxEvents
    /\ nEvents' = nEvents + 1
    /\ players' = [players EXCEPT ![r] = p]
    /\ lastSent' = <<>>
    /\ lastCalls' = <<>>
    /\ result' = "none"
    /\ UNCHANGED <<connections, registry, stop_threads, accPc, accSock, nextConn,
                   pc, author_id, server_id, peer, closeCalls>>
    /\ UNCHANGED bcast
    /\ UNCHANGED objects
    /\ UNCHANGED engine

(* ------------------------- get_player_values --------------------------- *)

\* server_id in self.musicbot.players
PlayerBound(sid) == sid \in DOMAIN players /\ players[sid].bound

\* CurrentEntryIsNone for a player that always has an entry
CurrentEntryIsNone_never(player) == FALSE

\* if player.current_entry is None
CurrentEntryIsNone(player) == player.entry = "None"

\* the tuple get_player_values returns; the metadata of a current entry is
\* the metadata resolver's answer, fixed here
get_player_values(sid) ==
    LET default == [artist |-> " ", song_title |-> "NOT CONNECTED TO A CHANNEL",
                    video_id |-> " ", cover_url |-> "http://i.imgur.com/nszu54A.jpg",
                    playing |-> "UNCONNECTED", duration |-> "0",
                    progress |-> "0", volume |-> ".5"]
    IN  IF ~PlayerBound(sid) THEN default
        ELSE LET player == players[sid]
                 vol == VolStr(player.volume)
             IN  IF CurrentEntryIsNone(player)
                 THEN [default EXCEPT !.song_title = "NONE", !.playing = "STOPPED",
                                      !.volume = vol]
                 ELSE [artist |-> "Beyoncé", song_title |-> "TITLE",
                       video_id |-> "VIDEO", cover_url |-> "COVER",
                       playing |-> IF player.state = "playing" THEN "PLAYING"
                                   ELSE "PAUSED",
                       duration |-> "200", progress |-> "1.5", volume |-> vol]

\* the INFORMATION response built from get_player_values
Information(sid) ==
    LET v == get_player_values(sid)
    IN  "INFORMATION;" \o v.artist \o ";" \o v.song_title \o ";" \o v.video_id
        \o ";" \o v.playing \o ";" \o v.cover_url \o ";" \o v.progress
        \o ";" \o v.duration \o ";" \o v.volume

Frame(c, text) == [to |-> c, frame |-> text]

(* ------------------------ connection_maintainer ------------------------ *)

\* what handling one frame does after the bindings were written:
\* out "continue" goes back to the loop head, out "raise" is an exception
\* nothing in connection_maintainer catches
Effect(out, sent, calls, awaiting, plrs) ==
    [out |-> out, sent |-> sent, calls |-> calls, awaiting |-> awaiting,
     players |-> plrs]

NoEffect == Effect("continue", <<>>, <<>>, awaiting_registeration, players)

\* the engine call of a COMMAND frame; raises: the call raises
EngineCall(call, raises, plrs) ==
    IF raises THEN [NoEffect EXCEPT !.out = "raise", !.calls = <<call>>]
    ELSE [NoEffect EXCEPT !.calls = <<call>>, !.players = plrs]

\* asyncio.run_coroutine_threadsafe(coroutine, loop): the coroutines the
\* handling of a frame put on the engine's event loop; a submission that
\* raised put nothing there
Submitted(eff) ==
    IF eff.out = "raise" THEN <<>>
    ELSE SelectSeq(eff.calls, LAMBDA call : call[1] = "submit")

\* PlayPause with else in place of elif player.is_playing
PlayPause_else(sid, raises) ==
    IF players[sid].state = "paused"
    THEN EngineCall(<<"resume", sid>>, raises,
                    [players EXCEPT ![sid].state = "playing"])
    ELSE EngineCall(<<"pause", sid>>, raises,
                    [players EXCEPT ![sid].state = "paused"])

\* if leftover[0] == "PLAY_PAUSE", for a server that has a player
PlayPause(sid, raises) ==
    IF players[sid].state = "paused"
    THEN EngineCall(<<"resume", sid>>, raises,
                    [players EXCEPT ![sid].state = "playing"])
    ELSE IF players[sid].state = "playing"
    THEN EngineCall(<<"pause", sid>>, raises,
                    [players EXCEPT ![sid].state = "paused"])
    ELSE NoEffect

\* elif request == "COMMAND"
Command(sid, aid, leftover, raises) ==
    IF Len(leftover) = 0 THEN [NoEffect EXCEPT !.out = "raise"]
    ELSE
    LET verb == leftover[1]
        \* try: run_coroutine_threadsafe(socket_summon(server_id), loop)
        \* except: pass -- a submission that raised is discarded whole
        summon == IF verb = "SUMMON" /\ ~raises
                  THEN << <<"submit", "socket_summon", sid>> >>
                  ELSE <<>>
    IN  IF ~PlayerBound(sid) THEN [NoEffect EXCEPT !.calls = summon]
        ELSE
        CASE verb = "PLAY_PAUSE" -> PlayPause(sid, raises)
          [] verb = "SKIP" -> EngineCall(<<"skip", sid>>, raises, players)
          [] verb = "VOLUMECHANGE" ->
                IF Len(leftover) < 2 \/ ~IsFloat(leftover[2])
                THEN [NoEffect EXCEPT !.out = "raise"]
                ELSE EngineCall(<<"volume", sid, leftover[2]>>, raises,
                                [players EXCEPT ![sid].volume = Float(leftover[2])])
          [] verb = "PLAY" ->
                IF Len(leftover) < 2 THEN [NoEffect EXCEPT !.out = "raise"]
                ELSE EngineCall(<<"submit", "add_entry", sid, leftover[2]>>,
                                raises, players)
          [] verb = "RADIO" ->
                IF Len(leftover) < 2 THEN [NoEffect EXCEPT !.out = "raise"]
                ELSE EngineCall(<<"submit", "socket_radio", leftover[2]>>,
                                raises, players)
          [] OTHER -> [NoEffect EXCEPT !.calls = summon]

\* the if/elif chain on request
Dispatch(c, request, sid, aid, leftover, raises) ==
    IF request = "REQUEST" /\ Len(leftover) > 0 /\ leftover[1] = "SEND_INFORMATION"
    THEN [NoEffect EXCEPT !.sent = <<Frame(c, Encode(Information(sid)))>>]
    ELSE IF request = "REQUEST" /\ sid = USER_IDENTIFICATION
    THEN [NoEffect EXCEPT
            !.awaiting = DictSet(awaiting_registeration, c, Lower(aid))]
    ELSE IF request = "COMMAND"
    THEN Command(sid, aid, leftover, raises)
    ELSE NoEffect

\* if server_id.lower() not in ["USER_IDENTIFICATION"]
BindsRoom(sid) == Lower(sid) \notin {"USER_IDENTIFICATION"}

\* Bindings with the write to server_ids moved up to where parts[1] is read
Bindings_early(c, f) ==
    IF Len(f) >= 2 /\ BindsRoom(f[2])
    THEN [server_ids |-> DictSet(server_ids, c, f[2]),
          sockets_by_user |-> IF Len(f) >= 3
                              THEN DictSet(sockets_by_user, f[3], c)
                              ELSE sockets_by_user]
    ELSE [server_ids |-> server_ids, sockets_by_user |-> sockets_by_user]

\* the try block that parses the body f: server_ids and sockets_by_user as
\* it leaves them; parts[2] raises IndexError before anything is written
\* when f has fewer than 3 fields
Bindings(c, f) ==
    IF Len(f) >= 3 /\ BindsRoom(f[2])
    THEN [server_ids |-> DictSet(server_ids, c, f[2]),
          sockets_by_user |-> DictSet(sockets_by_user, f[3], c)]
    ELSE [server_ids |-> server_ids, sockets_by_user |-> sockets_by_user]

\* PongReply without the length prefix
PongReply_unframed(c) == <<Frame(c, "pong")>>

\* c_socket.sendall("4==pong".encode("utf-8"))
PongReply(c) == <<Frame(c, "4==pong")>>

\* the key popped from sockets_by_user when the loop has ended
TeardownKey(aid, sid) == aid \o "_" \o sid

\* the code after the loop, run on the registry as the loop left it; it
\* reads the locals author_id and server_id (a NameError when the loop never
\* assigned them), and c_socket.shutdown may raise on a connection the peer
\* has reset, which skips c_socket.close()
Teardown(c, aid, sid, shutdownRaises, sbu, sids) ==
    IF aid = Unbound \/ sid = Unbound
    THEN [pc |-> "aborted", sockets_by_user |-> sbu,
          connections |-> connections, server_ids |-> sids, closes |-> 0]
    ELSE [pc |-> IF shutdownRaises THEN "aborted" ELSE "done",
          sockets_by_user |-> DictPop(sbu, TeardownKey(aid, sid)),
          connections |-> ListRemove(connections, c),
          server_ids |-> DictPop(sids, c),
          closes |-> IF shutdownRaises THEN 0 ELSE 1]

\* Goes with the close() call made on the socket of the first tuple of
\* self.connections
Goes_first(c, t) ==
    /\ pc' = [pc EXCEPT ![c] = t.pc]
    /\ sockets_by_user' = t.sockets_by_user
    /\ connections' = t.connections
    /\ server_ids' = t.server_ids
    /\ closeCalls' = [closeCalls EXCEPT
                        ![IF connections # <<>> THEN connections[1] ELSE c] =
                            @ + t.closes]

\* the thread of socket c goes on as the record t says
Goes(c, t) ==
    /\ pc' = [pc EXCEPT ![c] = t.pc]
    /\ sockets_by_user' = t.sockets_by_user
    /\ connections' = t.connections
    /\ server_ids' = t.server_ids
    /\ closeCalls' = [closeCalls EXCEPT ![c] = @ + t.closes]

\* the thread is at pc p and the code after the loop has not run
Stays(p, sbu, sids) ==
    [pc |-> p, sockets_by_user |-> sbu, connections |-> connections,
     server_ids |-> sids, closes |-> 0]

ShutdownOutcomes(c) == IF peer[c] = "reset" THEN BOOLEAN ELSE {FALSE}

\* while not self.stop_threads: the thread goes to recv, or leaves the loop
SessionLoop(c) ==
    /\ pc[c] = "loop"
    /\ IF stop_threads
       THEN \E sr \in ShutdownOutcomes(c) :
                Goes(c, Teardown(c, author_id[c], server_id[c], sr,
                                 sockets_by_user, server_ids))
       ELSE Goes(c, Stays("recv", sockets_by_user, server_ids))
    /\ Quiet
    /\ UNCHANGED <<awaiting_registeration, stop_threads, players, accPc,
                   accSock, nextConn, author_id, server_id, peer, nEvents>>
    /\ UNCHANGED bcast
    /\ UNCHANGED objects
    /\ UNCHANGED engine

\* c_socket.recv raises
RecvError(c) ==
    /\ pc[c] = "recv"
    /\ peer[c] = "reset"
    /\ \E sr \in ShutdownOutcomes(c) :
           Goes(c, Teardown(c, author_id[c], server_id[c], sr,
                            sockets_by_user, server_ids))
    /\ Quiet
    /\ UNCHANGED <<awaiting_registeration, stop_threads, players, accPc,
                   accSock, nextConn, author_id, server_id, peer, nEvents>>
    /\ UNCHANGED bcast
    /\ UNCHANGED objects
    /\ UNCHANGED engine

\* only a COMMAND frame that names a command makes an engine call, which
\* may raise: SUMMON submits its coroutine for every room, the other
\* commands act for a room that has a player
RaiseOutcomes(f) ==
    IF f[1] = "COMMAND" /\ Len(f) >= 4 /\ (f[4] = "SUMMON" \/ PlayerBound(f[2]))
    THEN BOOLEAN ELSE {FALSE}

\* c_socket.recv returns the body f and the loop body handles it: the thread
\* gets back to the loop head, or breaks and runs the code after the loop
Recv(c, f, raises) ==
    /\ pc[c] = "recv"
    /\ peer[c] = "alive"
    /\ nEvents < MaxEvents
    /\ nEvents' = nEvents + 1
    /\ result' = "none"
    /\ UNCHANGED <<stop_threads, accPc, accSock, nextConn, peer>>
    /\ IF f \in TerminalBodies
       THEN /\ Goes(c, Teardown(c, author_id[c], server_id[c], FALSE,
                                sockets_by_user, server_ids))
            /\ lastSent' = <<>>
            /\ lastCalls' = <<>>
            /\ UNCHANGED <<awaiting_registeration, players, author_id, server_id,
                           loopQueue>>
       ELSE IF f = <<"ping">>
       THEN /\ lastSent' = PongReply(c)
            /\ lastCalls' = <<>>
            /\ Goes(c, Stays("loop", sockets_by_user, server_ids))
            /\ UNCHANGED <<awaiting_registeration, players, author_id, server_id,
                           loopQueue>>
       ELSE IF Len(f) < 3
       THEN LET sid == IF Len(f) >= 2 THEN f[2] ELSE server_id[c]
                b == Bindings(c, f)
            IN  /\ server_id' = [server_id EXCEPT ![c] = sid]
                /\ Goes(c, Teardown(c, author_id[c], sid, FALSE,
                                    b.sockets_by_user, b.server_ids))
                /\ lastSent' = <<>>
                /\ lastCalls' = <<>>
                /\ UNCHANGED <<awaiting_registeration, players, author_id,
                               loopQueue>>
       ELSE LET request == f[1]
                sid == f[2]
                aid == f[3]
                leftover == SubSeq(f, 4, Len(f))
                b == Bindings(c, f)
                eff == Dispatch(c, request, sid, aid, leftover, raises)
            IN  /\ server_id' = [server_id EXCEPT ![c] = sid]
                /\ author_id' = [author_id EXCEPT ![c] = aid]
                /\ awaiting_registeration' = eff.awaiting
                /\ players' = eff.players
                /\ lastSent' = eff.sent
                /\ lastCalls' = eff.calls
                /\ loopQueue' = loopQueue \o Submitted(eff)
                /\ Goes(c, Stays(IF eff.out = "raise" THEN "crashed" ELSE "loop",
                                 b.sockets_by_user, b.server_ids))
    /\ UNCHANGED bcast
    /\ UNCHANGED objects

\* some session that waits in c_socket.recv gets one of the frames
SessionRecv(frames) ==
    /\ nEvents < MaxEvents
    /\ \E c \in Conns :
           /\ pc[c] = "recv"
           /\ \E f \in frames :
                  \E raises \in RaiseOutcomes(f) : Recv(c, f, raises)

\* what running a coroutine on the engine's loop may end in: add_entry
\* raises WrongEntryTypeError for a reference that is not a single entry
EngineOutcomes(call) ==
    IF call[2] = "add_entry" THEN {"ok", "WrongEntryTypeError"} ELSE {"ok"}

\* the engine's loop runs the oldest coroutine submitted to it; the outcome
\* goes to the future run_coroutine_threadsafe returned, which
\* connection_maintainer dropped, and so changes nothing here
EngineRun(outcome) ==
    /\ loopQueue # <<>>
    /\ outcome \in EngineOutcomes(Head(loopQueue))
    /\ loopQueue' = Tail(loopQueue)
    /\ Quiet
    /\ UNCHANGED <<connections, registry, stop_threads, players, accPc, accSock,
                   nextConn, pc, author_id, server_id, peer, closeCalls, nEvents>>
    /\ UNCHANGED bcast
    /\ UNCHANGED objects

\* the client end resets the connection
PeerReset(c) ==
    /\ pc[c] # "none"
    /\ closeCalls[c] = 0
    /\ peer[c] = "alive"
    /\ nEvents < MaxEvents
    /\ nEvents' = nEvents + 1
    /\ peer' = [peer EXCEPT ![c] = "reset"]
    /\ lastSent' = <<>>
    /\ lastCalls' = <<>>
    /\ result' = "none"
    /\ UNCHANGED <<connections, registry, stop_threads, players, accPc, accSock,
                   nextConn, pc, author_id, server_id, closeCalls>>
    /\ UNCHANGED bcast
    /\ UNCHANGED objects
    /\ UNCHANGED engine

(* --------------------------- register_handler -------------------------- *)

\* sock.sendall succeeds
SendOk(c) == closeCalls[c] = 0 /\ peer[c] = "alive"

\* RegisterMatch without the comparison: the first socket of the dictionary
RegisterMatch_nocheck(token) ==
    IF awaiting_registeration = <<>> THEN None
    ELSE awaiting_registeration[1][1]

\* the for loop: the first socket whose token matches, or None
RegisterMatch(token) ==
    LET hits == {i \in 1..Len(awaiting_registeration) :
                    Lower(awaiting_registeration[i][2]) = Lower(token)}
    IN  IF hits = {} THEN None
        ELSE awaiting_registeration[CHOOSE i \in hits : \A j \in hits : i <= j][1]

\* RegisterPop that clears the dictionary
RegisterPop_all(sck) ==
    IF sck = None THEN awaiting_registeration ELSE <<>>

\* self.awaiting_registeration after the call
RegisterPop(sck) ==
    IF sck = None THEN awaiting_registeration
    ELSE DictPop(awaiting_registeration, sck)

\* what the call passes to sendall
RegisterResponse(sck, sid, aid) ==
    IF sck = None THEN <<>>
    ELSE <<Frame(sck, Encode("USERINFORMATION;" \o sid \o ";" \o aid))>>

register_handler(token, sid, aid) ==
    /\ nEvents < MaxEvents
    /\ nEvents' = nEvents + 1
    /\ lastCalls' = <<>>
    /\ LET sck == RegisterMatch(token)
       IN  /\ awaiting_registeration' = RegisterPop(sck)
           /\ IF sck = None
              THEN /\ result' = "False"
                   /\ lastSent' = <<>>
              ELSE IF SendOk(sck)
              THEN /\ result' = "True"
                   /\ lastSent' = RegisterResponse(sck, sid, aid)
              ELSE /\ result' = "raise"
                   /\ lastSent' = <<>>
    /\ UNCHANGED <<connections, server_ids, sockets_by_user, stop_threads,
                   players, accPc, accSock, nextConn, pc, author_id, server_id,
                   peer, closeCalls>>
    /\ UNCHANGED bcast
    /\ UNCHANGED objects
    /\ UNCHANGED engine

(* ----------------------- _broadcast_information ------------------------ *)

\* what the broadcaster leaves alone
sessions == <<connections, registry, stop_threads, players, accPc, accSock,
              nextConn, pc, author_id, server_id, peer, closeCalls, nEvents>>

\* threaded_broadcast_information(): the thread is started and
\* self.server_ids.items() is handed to the for statement; the bot starts a
\* pass while some socket is bound
BroadcastStart ==
    /\ bPc = "idle"
    /\ server_ids # <<>>
    /\ bPc' = "iter"
    /\ bIdx' = 0
    /\ bSize' = Len(server_ids)
    /\ bOut' = NoFrame
    /\ bSent' = <<>>
    /\ Quiet
    /\ UNCHANGED <<sessions, engine>>
    /\ UNCHANGED objects

\* the for statement asks for the next item: the iteration raises
\* RuntimeError when the dictionary changed size since it began; after the
\* last item the loop over to_delete runs, and to_delete is empty because
\* the except clause re-raises before it appends; otherwise the response is
\* built from get_player_values(server_id) and handed to sock.sendall
BroadcastIter ==
    /\ bPc = "iter"
    /\ IF Len(server_ids) # bSize
       THEN /\ bPc' = "RuntimeError"
            /\ UNCHANGED <<bIdx, bOut>>
       ELSE IF bIdx = bSize
       THEN /\ bPc' = "done"
            /\ UNCHANGED <<bIdx, bOut>>
       ELSE LET sock == server_ids[bIdx + 1][1]
                sid == server_ids[bIdx + 1][2]
            IN  /\ bPc' = "sending"
                /\ bIdx' = bIdx + 1
                /\ bOut' = [to |-> sock, room |-> sid,
                            frame |-> Encode(Information(sid))]
    /\ UNCHANGED <<bSize, bSent>>
    /\ Quiet
    /\ UNCHANGED <<sessions, engine>>
    /\ UNCHANGED objects

\* sock.sendall returns, or raises and the except clause re-raises
BroadcastSend ==
    /\ bPc = "sending"
    /\ IF SendOk(bOut.to)
       THEN /\ bPc' = "iter"
            /\ bSent' = Append(bSent, bOut)
       ELSE /\ bPc' = "raised"
            /\ UNCHANGED bSent
    /\ bOut' = NoFrame
    /\ UNCHANGED <<bIdx, bSize>>
    /\ Quiet
    /\ UNCHANGED <<sessions, engine>>
    /\ UNCHANGED objects

(* --------------------------- broadcast_message -------------------------- *)

\* the texts the bot broadcasts
Messages == {"hi"}

\* send_message(author_id, message) returns True
send_message(author) ==
    /\ DictHas(sockets_by_user, author)
    /\ SendOk(DictGet(sockets_by_user, author))

\* MessageToDelete listing every user
MessageToDelete_all ==
    SelectSeq(sockets_by_user, LAMBDA item : TRUE)

\* to_delete: the items of the users send_message returned False for
MessageToDelete ==
    SelectSeq(sockets_by_user, LAMBDA item : ~send_message(item[1]))

\* the frames send_message passed to sendall, in the order of the iteration
MessageFrames(message) ==
    LET ok == SelectSeq(sockets_by_user, LAMBDA item : send_message(item[1]))
    IN  [i \in 1..Len(ok) |->
            Frame(ok[i][2], Encode("MESSAGE;" \o message))]

\* broadcast_message(message)
broadcast_message(message) ==
    /\ lastSent' = MessageFrames(message)
    /\ sockets_by_user' =
           LET gone == {MessageToDelete[i][1] : i \in 1..Len(MessageToDelete)}
           IN  SelectSeq(sockets_by_user, LAMBDA item : item[1] \notin gone)
    /\ lastCalls' = <<>>
    /\ result' = "none"
    /\ UNCHANGED <<connections, server_ids, awaiting_registeration,
                   stop_threads, players, accPc, accSock, nextConn, pc,
                   author_id, server_id, peer, closeCalls, nEvents>>
    /\ UNCHANGED <<engine, bcast>>
    /\ UNCHANGED objects

(* --------------------------- specification ----------------------------- *)

Next ==
    \/ AccepterEnter
    \/ AccepterAccept
    \/ AccepterAcceptError
    \/ AccepterAppend
    \/ AccepterSleep
    \/ AccepterWake
    \/ AccepterStop
    \/ Shutdown
    \/ \E c \in Conns : SessionLoop(c)
    \/ \E c \in Conns : RecvError(c)
    \/ SessionRecv(Frames)
    \/ \E c \in Conns : PeerReset(c)
    \/ \E r \in Rooms, p \in PlayerStates : EngineChange(r, p)
    \/ \E outcome \in {"ok", "WrongEntryTypeError"} : EngineRun(outcome)
    \/ \E token \in Tokens, sid \in Rooms, aid \in {"u1"} :
           register_handler(token, sid, aid)

\* the server while the bot calls neither broadcast
Spec == Init /\ [][Next]_vars

\* the accepter thread is scheduled: the loop test, the append and the
\* return of time.sleep happen once they can, and an accept() on the
\* listening socket that shutdown() shut down raises
FairSpec ==
    /\ Spec
    /\ WF_vars(AccepterStop)
    /\ WF_vars(AccepterAppend)
    /\ WF_vars(AccepterWake)
    /\ WF_vars(ListenerDown /\ AccepterAcceptError)

\* FairSpec with a client waiting to connect whenever the accepter is in
\* main_socket.accept(), and the accepter thread scheduled at the capacity
\* test too
FairAcceptSpec ==
    /\ FairSpec
    /\ WF_vars(AccepterEnter)
    /\ WF_vars(AccepterSleep)
    /\ WF_vars(AccepterAccept)

\* the frames of clients that bind to a room, ask for its state and leave
BroadcastFrames ==
    {<<"exit">>, <<"ping">>, <<"REQUEST", "r1", "u1", "SEND_INFORMATION">>}
    \cup {<<"REQUEST", "r1", u>> : u \in Users}

\* the steps of the server and of the bot's two broadcasts
NextBroadcast ==
    \/ AccepterEnter
    \/ AccepterAccept
    \/ AccepterAcceptError
    \/ AccepterAppend
    \/ AccepterSleep
    \/ AccepterWake
    \/ AccepterStop
    \/ Shutdown
    \/ \E c \in Conns : SessionLoop(c)
    \/ \E c \in Conns : RecvError(c)
    \/ SessionRecv(BroadcastFrames)
    \/ \E c \in Conns : PeerReset(c)
    \/ \E r \in Rooms, p \in PlayerStates : EngineChange(r, p)
    \/ BroadcastStart
    \/ BroadcastIter
    \/ BroadcastSend
    \/ \E message \in Messages : broadcast_message(message)

\* the server while the bot broadcasts to clients that send BroadcastFrames
SpecBroadcast == Init /\ [][NextBroadcast]_vars

(* ----------------- giesela/permission/decorators.py -------------------- *)

\* an object is <<"function", f>> or <<"Command", k>>: the function f, or
\* the k-th Command created; objects.functions[f] is the __dict__ of f,
\* objects.commands[k] holds the callback and the __dict__ of the Command;
\* a __dict__ is a function from the names of the attributes set to their
\* values
Function(f) == <<"function", f>>

CommandAt(k) == <<"Command", k>>

Objects ==
    {Function(f) : f \in Functions}
    \cup {CommandAt(k) : k \in 1..Len(objects.commands)}

\* _get_perm_attr with one attribute for both flags
get_perm_attr_shared(global_only) == "__required_permissions__"

\* _get_perm_attr(global_only)
get_perm_attr(global_only) ==
    IF global_only THEN "__required_global_permissions__"
    ELSE "__required_permissions__"

\* _get_perm_container without the isinstance test
get_perm_container_self(obj) == obj

\* _get_perm_container(obj): the callback of a Command, else the object
get_perm_container(obj) ==
    IF obj[1] = "Command" THEN Function(objects.commands[obj[2]].callback)
    ELSE obj

\* obj.__dict__
DictOf(obj) ==
    IF obj[1] = "Command" THEN objects.commands[obj[2]].dict
    ELSE objects.functions[obj[2]]

\* hasattr(obj, attr)
HasAttr(obj, attr) == attr \in DOMAIN DictOf(obj)

\* getattr(obj, attr)
GetAttr(obj, attr) == DictOf(obj)[attr]

\* the __dict__ d after setattr has bound attr to value
WithAttr(d, attr, value) ==
    [a \in DOMAIN d \cup {attr} |-> IF a = attr THEN value ELSE d[a]]

\* setattr(obj, attr, value)
SetAttr(obj, attr, value) ==
    IF obj[1] = "Command"
    THEN [objects EXCEPT !.commands[obj[2]].dict = WithAttr(@, attr, value)]
    ELSE [objects EXCEPT !.functions[obj[2]] = WithAttr(@, attr, value)]

\* set(permissions)
SetOf(permissions) == {permissions[i] : i \in 1..Len(permissions)}

\* list(perms): the elements of the set, each once, in the set's order
ListOf(perms) ==
    CHOOSE l \in [1..Cardinality(perms) -> perms] : SetOf(l) = perms

\* get_decorated_permissions(obj, global_only)
get_decorated_permissions(obj, global_only) ==
    LET attr == get_perm_attr(global_only)
        container == get_perm_container(obj)
    IN  IF HasAttr(container, attr) THEN ListOf(GetAttr(container, attr))
        ELSE <<>>

\* what the decorators leave alone
server == <<sessions, engine, bcast, trace>>

\* has_permission(*permissions, global_only=global_only)(obj)
has_permission(obj, permissions, global_only) ==
    /\ obj[1] = "Command" => obj[2] <= Len(objects.commands)
    /\ objects' = SetAttr(get_perm_container(obj), get_perm_attr(global_only),
                          SetOf(permissions))
    /\ UNCHANGED server

\* command()(f): the function f is wrapped as a new Command
command(f) ==
    /\ Len(objects.commands) < MaxCommands
    /\ objects' = [objects EXCEPT
                     !.commands = Append(@, [callback |-> f, dict |-> <<>>])]
    /\ UNCHANGED server

\* the cog system copies the k-th Command: the copy has the callback of the
\* original and none of the attributes set on the original
CogCopy(k) ==
    /\ k \in 1..Len(objects.commands)
    /\ Len(objects.commands) < MaxCommands
    /\ objects' = [objects EXCEPT
                     !.commands = Append(@, [callback |-> objects.commands[k].callback,
                                              dict |-> <<>>])]
    /\ UNCHANGED server

NextDecorators ==
    \/ \E f \in Functions, permissions \in PermissionArgs, global_only \in BOOLEAN :
           has_permission(Function(f), permissions, global_only)
    \/ \E k \in 1..MaxCommands, permissions \in PermissionArgs, global_only \in BOOLEAN :
           has_permission(CommandAt(k), permissions, global_only)
    \/ \E f \in Functions : command(f)
    \/ \E k \in 1..MaxCommands : CogCopy(k)

\* functions and Commands being decorated, wrapped and copied
SpecDecorators == Init /\ [][NextDecorators]_vars

TypeOK ==
    /\ DictKeys(server_ids) \subseteq Conns
    /\ DictValues(sockets_by_user) \subseteq Conns
    /\ DictKeys(awaiting_registeration) \subseteq Conns
    /\ \A c \in Conns : closeCalls[c] \in 0..1

(* ------------------------------ claims --------------------------------- *)

\* socket c is referenced by one of the three registry dictionaries
InRegistry(c) ==
    \/ c \in DictKeys(server_ids)
    \/ c \in DictValues(sockets_by_user)
    \/ c \in DictKeys(awaiting_registeration)

\* a step in which the session of c meets one of its terminal conditions:
\* a socket error, an empty read, "exit", "sdown" or a malformed frame
TerminalStep(c) ==
    \/ RecvError(c)
    \/ \E f \in TerminalBodies \cup MalformedFrames : Recv(c, f, FALSE)

\* C1: after the read loop of a connection exits by a terminal condition,
\* none of server_ids, sockets_by_user and awaiting_registeration still
\* references the connection.
C1_RegistryPurgedAfterLoop ==
    [][\A c \in Conns : TerminalStep(c) => ~InRegistry(c)']_vars

\* C2: every terminal condition of a session, also when it is the first
\* thing the session observes, leads to the socket being closed exactly once.
C2_ClosedOnceAfterLoop ==
    [][\A c \in Conns : TerminalStep(c) => closeCalls'[c] = 1]_vars

\* C3: a connection that has not sent a frame of at least 3 fields (its
\* thread never assigned author_id) is in none of the three dictionaries.
C3_NoFrameNoEntry ==
    \A c \in Conns : author_id[c] = Unbound => ~InRegistry(c)

\* C3 witness: a connection that only sent "ping" got its pong and is in no
\* dictionary, while another connection is bound
C3_Witness ==
    \E c \in Conns :
        /\ author_id[c] = Unbound
        /\ lastSent = <<Frame(c, "4==pong")>>
        /\ ~InRegistry(c)
        /\ server_ids # <<>>

\* C4: a REQUEST;USER_IDENTIFICATION;<token> frame records a pending token
\* for the connection and leaves server_ids and sockets_by_user as they were.
C4_SentinelBindsNothing ==
    [][\A c \in Conns, t \in ClientTokens :
          Recv(c, <<"REQUEST", USER_IDENTIFICATION, t>>, FALSE)
          => /\ DictHas(awaiting_registeration', c)
             /\ server_ids' = server_ids
             /\ sockets_by_user' = sockets_by_user]_vars

\* the pending entries a token resolves, compared without regard to case
Pending(token) ==
    {i \in 1..Len(awaiting_registeration) :
        Lower(awaiting_registeration[i][2]) = Lower(token)}

\* C5: with one connection waiting on a token, register_handler called with
\* any case variant of it returns True and removes the entry; called when no
\* entry is waiting on the token, it returns False.
C5_ResolvesExactlyOnce ==
    [][\A tok \in Tokens, sid \in Rooms :
          register_handler(tok, sid, "u1")
          => IF Cardinality(Pending(tok)) = 1
             THEN result' = "True" /\ Pending(tok)' = {}
             ELSE Pending(tok) = {} => result' = "False"]_vars

\* C6: register_handler called with a token no pending entry matches returns
\* False, changes none of the three dictionaries and sends no frame.
C6_MissHasNoEffect ==
    [][\A tok \in Tokens, sid \in Rooms :
          (register_handler(tok, sid, "u1") /\ Pending(tok) = {})
          => /\ result' = "False"
             /\ registry' = registry
             /\ lastSent' = <<>>]_vars

\* C6 witness: a call missed while another token was pending
C6_Witness ==
    /\ result = "False"
    /\ awaiting_registeration # <<>>
    /\ lastSent = <<>>

\* C7: a register_handler call that returns True sent exactly one frame,
\* USERINFORMATION;<server id>;<author id>, to a connection whose pending
\* token matched, removed that connection's pending entry and left every
\* other pending entry in place.
C7_SuccessNotifiesMatched ==
    [][\A tok \in Tokens :
          (register_handler(tok, "r1", "u1") /\ result' = "True")
          => \E c \in Conns :
                /\ DictHas(awaiting_registeration, c)
                /\ Lower(DictGet(awaiting_registeration, c)) = Lower(tok)
                /\ lastSent' = <<[to |-> c, frame |-> "21==USERINFORMATION;r1;u1"]>>
                /\ awaiting_registeration' = DictPop(awaiting_registeration, c)
                /\ ~DictHas(awaiting_registeration', c)]_vars

\* C7 witness: a call succeeded and the pending entry of another connection
\* is still there
C7_Witness ==
    /\ result = "True"
    /\ Len(lastSent) = 1
    /\ awaiting_registeration # <<>>
    /\ lastSent[1].to \notin DictKeys(awaiting_registeration)

\* C8: a "ping" frame is answered with the one frame "4==pong" on the same
\* connection; the session goes back to its loop head, the three
\* dictionaries and the session's locals are unchanged, no engine call is made.
C8_PingRepliesPong ==
    [][\A c \in Conns :
          Recv(c, <<"ping">>, FALSE)
          => /\ lastSent' = <<[to |-> c, frame |-> "4==pong"]>>
             /\ pc'[c] = "loop"
             /\ registry' = registry
             /\ author_id' = author_id /\ server_id' = server_id
             /\ closeCalls' = closeCalls
             /\ lastCalls' = <<>>
             /\ players' = players]_vars

\* C8 witness: a connection bound to a room was sent its pong and is still bound
C8_Witness ==
    \E c \in Conns :
        /\ lastSent = <<[to |-> c, frame |-> "4==pong"]>>
        /\ pc[c] = "loop"
        /\ DictHas(server_ids, c)

\* C9: a frame of fewer than 3 fields, first or later, gets no reply, adds
\* no binding, and ends the session with its socket closed.
C9_MalformedCloses ==
    [][\A c \in Conns, f \in MalformedFrames :
          Recv(c, f, FALSE)
          => /\ lastSent' = <<>>
             /\ DictKeys(server_ids') \subseteq DictKeys(server_ids)
             /\ DictKeys(sockets_by_user') \subseteq DictKeys(sockets_by_user)
             /\ awaiting_registeration' = awaiting_registeration
             /\ pc'[c] = "done"
             /\ closeCalls'[c] = 1]_vars

\* C10: whatever fails while a COMMAND frame is handled, the session stays
\* open, keeps its bindings and goes back to the loop head for the next frame.
C10_CommandFailureRecovered ==
    [][\A c \in Conns, f \in CommandFrames, raises \in BOOLEAN :
          Recv(c, f, raises)
          => /\ pc'[c] = "loop"
             /\ closeCalls'[c] = 0
             /\ DictHas(server_ids', c)
             /\ DictHas(sockets_by_user', f[3])]_vars

\* C11: a PLAY_PAUSE command for a room that has an engine makes exactly one
\* resume call and no pause call when the engine is paused, exactly one pause
\* call and no resume call when it is playing, and no engine call when it is
\* stopped.
C11_PlayPauseToggles ==
    [][\A c \in Conns, raises \in BOOLEAN :
          /\ PlayerBound("r1")
          /\ Recv(c, <<"COMMAND", "r1", "u1", "PLAY_PAUSE">>, raises)
          => lastCalls' = CASE players["r1"].state = "paused" -> << <<"resume", "r1">> >>
                            [] players["r1"].state = "playing" -> << <<"pause", "r1">> >>
                            [] OTHER -> <<>>]_vars

\* C11 witness: a paused engine was resumed by the one call of the command
C11_Witness ==
    /\ lastCalls = << <<"resume", "r1">> >>
    /\ PlayerBound("r1")
    /\ players["r1"].state = "playing"

\* the volume arguments a client sends that spell a number
VolumeArgs == {"0.7", "1.523"}

\* the INFORMATION response of a room whose volume field is the text vol
InformationWith(sid, vol) ==
    LET v == get_player_values(sid)
    IN  "INFORMATION;" \o v.artist \o ";" \o v.song_title \o ";" \o v.video_id
        \o ";" \o v.playing \o ";" \o v.cover_url \o ";" \o v.progress
        \o ";" \o v.duration \o ";" \o vol

\* a VOLUMECHANGE command hands the engine the number its argument spells
VolumeReachesEngine ==
    \A c \in Conns, x \in VolumeArgs :
        /\ PlayerBound("r1")
        /\ Recv(c, <<"COMMAND", "r1", "u1", "VOLUMECHANGE", x>>, FALSE)
        => players'["r1"].volume = Float(x)

\* C12 as stated: after VOLUMECHANGE with the value v, a SEND_INFORMATION
\* request that finds the volume unchanged since is answered with an
\* INFORMATION frame whose volume field is v; v reaches the engine unclamped.
C12_VolumeRoundTrip ==
    [][/\ VolumeReachesEngine
       /\ \A c \in Conns, x \in VolumeArgs :
            /\ PlayerBound("r1")
            /\ players["r1"].volume = Float(x)
            /\ Recv(c, <<"REQUEST", "r1", "u1", "SEND_INFORMATION">>, FALSE)
            => lastSent' = <<Frame(c, Encode(InformationWith("r1", x)))>>]_vars

\* v rounded to two decimal places, as a float prints
TwoDecimals(x) ==
    CASE x = "0.7" -> "0.7"
      [] x = "1.523" -> "1.52"

\* C12 amended: after VOLUMECHANGE with the value v, a SEND_INFORMATION
\* request that finds the volume unchanged since is answered with an
\* INFORMATION frame whose volume field is v rounded to two decimal places;
\* v reaches the engine unclamped and unrounded.
C12_VolumeRoundTripRounded ==
    [][/\ VolumeReachesEngine
       /\ \A c \in Conns, x \in VolumeArgs :
            /\ PlayerBound("r1")
            /\ players["r1"].volume = Float(x)
            /\ Recv(c, <<"REQUEST", "r1", "u1", "SEND_INFORMATION">>, FALSE)
            => lastSent' = <<Frame(c, Encode(InformationWith("r1", TwoDecimals(x))))>>]_vars

\* C12 witness: the volume 1.523 set by a command was reported as 1.52
C12_Witness ==
    /\ PlayerBound("r1")
    /\ players["r1"].volume = 1523
    /\ \E c \in Conns :
           lastSent = <<Frame(c, Encode(InformationWith("r1", "1.52")))>>

\* the coroutines waiting on the engine's loop
Queued == {loopQueue[i] : i \in 1..Len(loopQueue)}

\* C13: a PLAY command for a room with an engine submits the reference to
\* add_entry; when the engine rejects it as the wrong entry type the same
\* reference is then submitted to import_from; the rejection closes no
\* connection.
C13_PlayFallsBackToImport ==
    [][/\ \A c \in Conns :
            /\ Recv(c, <<"COMMAND", "r1", "u1", "PLAY", "url">>, FALSE)
            /\ PlayerBound("r1")
            => <<"submit", "add_entry", "r1", "url">> \in Queued'
       /\ EngineRun("WrongEntryTypeError")
            => /\ <<"submit", "import_from", Head(loopQueue)[3],
                    Head(loopQueue)[4]>> \in Queued'
               /\ pc' = pc /\ closeCalls' = closeCalls]_vars

\* the pass of _broadcast_information is over and server_ids kept its size
\* while it ran
PassOver == bPc \in {"done", "raised"}

\* number of frames the pass sent to socket c
FramesTo(c) == Cardinality({i \in 1..Len(bSent) : bSent[i].to = c})

\* C14: one pass of _broadcast_information sends exactly one INFORMATION
\* frame to every open connection of server_ids, and the frames of the
\* connections bound to one room are identical, also when the engine's
\* state changes while the pass runs.
C14_OneSnapshotPerRoom ==
    /\ \A i, j \in 1..Len(bSent) :
           bSent[i].room = bSent[j].room => bSent[i].frame = bSent[j].frame
    /\ PassOver => \A c \in DictKeys(server_ids) : SendOk(c) => FramesTo(c) = 1

\* the sockets the pass has tried and failed to send to
FailedSends == {server_ids[i][1] : i \in 1..bIdx} \ {bSent[i].to : i \in 1..Len(bSent)}

\* C15: a send that fails during a pass of _broadcast_information is not
\* raised out of the pass and closes no socket; when the pass ends, the
\* connections whose send failed, and only those, are gone from server_ids.
C15_FailedSendRemovesConnection ==
    [][/\ BroadcastSend /\ ~SendOk(bOut.to)
            => bPc' = "iter" /\ closeCalls' = closeCalls
       /\ BroadcastIter /\ bPc' = "done"
            => server_ids' = SelectSeq(server_ids,
                                 LAMBDA item : item[1] \notin FailedSends)]_vars

\* C16: broadcast_message(text) sends the one frame MESSAGE;text to the
\* connection of every user of sockets_by_user; an entry whose send failed
\* is removed, every other entry is kept as it was, and nothing else changes.
C16_MessageBroadcastPrunes ==
    [][broadcast_message("hi")
       => /\ \A u \in DictKeys(sockets_by_user) :
               LET c == DictGet(sockets_by_user, u)
               IN  IF closeCalls[c] = 0 /\ peer[c] = "alive"
                   THEN /\ DictHas(sockets_by_user', u)
                        /\ DictGet(sockets_by_user', u) = c
                        /\ \E i \in 1..Len(lastSent') :
                               lastSent'[i] = [to |-> c, frame |-> "10==MESSAGE;hi"]
                   ELSE /\ ~DictHas(sockets_by_user', u)
                        /\ \A i \in 1..Len(lastSent') : lastSent'[i].to # c
          /\ DictKeys(sockets_by_user') \subseteq DictKeys(sockets_by_user)
          /\ Len(lastSent') = Len(sockets_by_user')
          /\ UNCHANGED <<server_ids, awaiting_registeration, connections,
                         closeCalls, pc>>]_vars

\* C16 witness: the message went to the one user whose socket takes it, and
\* the user of a dead socket is gone from sockets_by_user
C16_Witness ==
    \E c, d \in Conns :
        /\ lastSent = <<[to |-> c, frame |-> "10==MESSAGE;hi"]>>
        /\ author_id[c] \in DictKeys(sockets_by_user)
        /\ author_id[d] # Unbound
        /\ author_id[d] # author_id[c]
        /\ ~SendOk(d)
        /\ author_id[d] \notin DictKeys(sockets_by_user)

\* C19: an iteration over a registry dictionary never fails because a
\* session inserted or removed an entry while it ran.
C19_RegistryReadsAtomic == bPc # "RuntimeError"

\* a step that passes a frame to sendall on socket c outside the broadcaster
SendsTo(c) ==
    /\ \/ \E f \in Frames : Recv(c, f, FALSE)
       \/ \E message \in Messages : broadcast_message(message)
    /\ \E i \in 1..Len(lastSent') : lastSent'[i].to = c

\* C20: while one thread is inside sendall on a socket, no other thread
\* sends a frame on that socket.
C20_WritesSerialized ==
    [][\A c \in Conns : bPc = "sending" /\ bOut.to = c => ~SendsTo(c)]_vars

\* C17: the number of connections tracked in self.connections never
\* exceeds max_connections; at the ceiling the accepter accepts no socket,
\* it sleeps, and the sleep closes or drops no connection.
C17_CapacityCeiling ==
    [][/\ Len(connections') <= max_connections
       /\ Len(connections) >= max_connections => nextConn' = nextConn
       /\ AccepterSleep
            => /\ accPc' = "sleep"
               /\ UNCHANGED <<connections, registry, pc, closeCalls>>]_vars

\* C17 witness: the accepter sleeps at the ceiling while a further client
\* waits, and every tracked socket is still open
C17_Witness ==
    /\ accPc = "sleep"
    /\ Len(connections) = max_connections
    /\ nextConn < MaxConns
    /\ \A i \in 1..Len(connections) : closeCalls[connections[i]] = 0

\* C18: once shutdown() was called the accept loop eventually ends, from
\* accept(), from the sleep at the ceiling and from the loop head alike; an
\* accept() that raises sends the thread back to the loop head, and the
\* loop ends only after shutdown() was called.
C18_AccepterStopsAfterShutdown ==
    /\ stop_threads ~> accPc = "stopped"
    /\ [][AccepterAcceptError => accPc' = "loop"]_vars
    /\ [](accPc = "stopped" => stop_threads)

\* C18 witness: the accept loop has ended after a shutdown that found
\* connections open
C18_Witness ==
    /\ accPc = "stopped"
    /\ stop_threads
    /\ connections # <<>>

\* where the receiver of a frame finds the first "=="
SeparatorAt(frame) ==
    CHOOSE i \in 1..(Len(frame) - 1) :
        /\ SubSeq(frame, i, i + 1) = "=="
        /\ \A j \in 1..(i - 1) : SubSeq(frame, j, j + 1) # "=="

\* the length a frame announces and the payload that follows the "=="
Announced(frame) == SubSeq(frame, 1, SeparatorAt(frame) - 1)

Payload(frame) == SubSeq(frame, SeparatorAt(frame) + 2, Len(frame))

\* the frames the server has just handed to sendall
FramesOut ==
    {lastSent[i].frame : i \in 1..Len(lastSent)}
    \cup (IF bPc = "sending" THEN {bOut.frame} ELSE {})

\* C21: every frame the server sends is <N>==<payload> with N the number
\* of bytes of the UTF-8 encoded payload, also for a payload that has
\* characters outside ASCII, so that a receiver reading N bytes after the
\* "==" gets the whole payload and nothing else.
C21_LengthCountsBytes ==
    \A frame \in FramesOut :
        Announced(frame) = ToString(Utf8Len(Payload(frame)))

\* C22: has_permission(*perms, global_only=g) applied to an object makes
\* get_decorated_permissions(obj, g) return the permissions of perms, each
\* once, and leaves get_decorated_permissions(obj, not g) as it was, the
\* empty list when nothing was set for that flag; a later application with
\* the same flag replaces what an earlier one stored.
C22_DecoratedPermissionsStored ==
    [][\A obj \in Objects, permissions \in PermissionArgs, g \in BOOLEAN :
          has_permission(obj, permissions, g)
          => /\ SetOf(get_decorated_permissions(obj, g)') = SetOf(permissions)
             /\ Len(get_decorated_permissions(obj, g)')
                    = Cardinality(SetOf(permissions))
             /\ get_decorated_permissions(obj, ~g)'
                    = get_decorated_permissions(obj, ~g)
             /\ ~HasAttr(get_perm_container(obj), get_perm_attr(~g))
                    => get_decorated_permissions(obj, ~g)' = <<>>]_vars

\* C22 witness: a function decorated with shutdown and, for the global
\* flag, with execute, as in test_decorators
C22_Witness ==
    \E f \in Functions :
        /\ get_decorated_permissions(Function(f), FALSE) = <<"shutdown">>
        /\ get_decorated_permissions(Function(f), TRUE) = <<"execute">>

\* C23: has_permission applied before or after a function is wrapped as a
\* Command gives the same result: the permissions of a Command are those of
\* its callback, has_permission on a Command writes them to the callback and
\* sets nothing on the Command, a Command wrapped around a decorated
\* function returns the function's permissions, and so does the copy the
\* cog system makes of a Command.
C23_CommandPermissionsOnCallback ==
    /\ [](\A k \in 1..Len(objects.commands), g \in BOOLEAN :
             get_decorated_permissions(CommandAt(k), g)
                 = get_decorated_permissions(
                       Function(objects.commands[k].callback), g))
    /\ [][\A k \in 1..Len(objects.commands), permissions \in PermissionArgs,
            g \in BOOLEAN :
             has_permission(CommandAt(k), permissions, g)
             => /\ SetOf(get_decorated_permissions(CommandAt(k), g)')
                       = SetOf(permissions)
                /\ objects'.commands = objects.commands]_vars
    /\ [][\A f \in Functions, k \in 1..MaxCommands, g \in BOOLEAN :
             command(f) /\ k = Len(objects.commands) + 1
             => get_decorated_permissions(CommandAt(k), g)'
                    = get_decorated_permissions(Function(f), g)]_vars
    /\ [][\A j, k \in 1..MaxCommands, g \in BOOLEAN :
             CogCopy(j) /\ k = Len(objects.commands) + 1
             => get_decorated_permissions(CommandAt(k), g)'
                    = get_decorated_permissions(CommandAt(j), g)]_vars

\* C23 witness: two Commands share a callback and both return the
\* permission one of the decorations stored
C23_Witness ==
    \E j, k \in 1..Len(objects.commands) :
        /\ j # k
        /\ objects.commands[j].callback = objects.commands[k].callback
        /\ get_decorated_permissions(CommandAt(j), FALSE) = <<"shutdown">>
        /\ get_decorated_permissions(CommandAt(k), FALSE) = <<"shutdown">>
        /\ get_decorated_permissions(CommandAt(k), TRUE) = <<>>

\* the COMMAND frames of the model that submit a coroutine to the engine's
\* loop when the room has a player
SubmittingFrames ==
    {<<"COMMAND", "r1", "u1", "SUMMON">>,
     <<"COMMAND", "r1", "u1", "PLAY", "url">>,
     <<"COMMAND", "r1", "u1", "RADIO", "station">>}

\* C24: an engine that runs none of the submitted work does not block a
\* session: the frame that submits a command leaves the coroutine on the
\* engine's loop and the session at its loop head, while work is waiting
\* there the session still answers its frames, and on an empty read or a
\* receive error it still runs its teardown and closes its socket.
C24_StalledEngineDoesNotBlock ==
    [][\A c \in Conns :
          /\ \A f \in SubmittingFrames :
                 PlayerBound("r1") /\ Recv(c, f, FALSE)
                 => /\ pc'[c] = "loop"
                    /\ Len(loopQueue') = Len(loopQueue) + 1
          /\ loopQueue # <<>> /\ Recv(c, <<"ping">>, FALSE)
                 => lastSent' = PongReply(c) /\ pc'[c] = "loop"
          /\ /\ loopQueue # <<>>
             /\ author_id[c] # Unbound
             /\ Recv(c, <<"">>, FALSE) \/ RecvError(c)
             => closeCalls'[c] = 1 /\ loopQueue' = loopQueue]_vars

\* C24 without the receive error: its parts that the code keeps
C24_StalledEngineEmptyRead ==
    [][\A c \in Conns :
          /\ \A f \in SubmittingFrames :
                 PlayerBound("r1") /\ Recv(c, f, FALSE)
                 => /\ pc'[c] = "loop"
                    /\ Len(loopQueue') = Len(loopQueue) + 1
          /\ loopQueue # <<>> /\ Recv(c, <<"ping">>, FALSE)
                 => lastSent' = PongReply(c) /\ pc'[c] = "loop"
          /\ /\ loopQueue # <<>>
             /\ author_id[c] # Unbound
             /\ Recv(c, <<"">>, FALSE)
             => closeCalls'[c] = 1 /\ loopQueue' = loopQueue]_vars

\* the values get_player_values starts from, with the given title, status
\* and volume
Defaults(title, status, vol) ==
    [artist |-> " ", song_title |-> title, video_id |-> " ",
     cover_url |-> "http://i.imgur.com/nszu54A.jpg", playing |-> status,
     duration |-> "0", progress |-> "0", volume |-> vol]

\* the room has a player and the player has no current entry
NoCurrentEntry(sid) == PlayerBound(sid) /\ players[sid].entry = "None"

\* C25 as stated: get_player_values returns artist " ", video id " ", the
\* placeholder cover, duration "0", progress "0" and volume ".5" both for a
\* room without a player, with title "NOT CONNECTED TO A CHANNEL" and status
\* "UNCONNECTED", and for a player without a current entry, with title
\* "NONE" and status "STOPPED".
C25_SnapshotDefaults ==
    \A sid \in Rooms :
        /\ ~PlayerBound(sid)
               => get_player_values(sid)
                      = Defaults("NOT CONNECTED TO A CHANNEL", "UNCONNECTED", ".5")
        /\ NoCurrentEntry(sid)
               => get_player_values(sid) = Defaults("NONE", "STOPPED", ".5")

\* the volumes of the model rounded to two decimal places, as a float prints
ShownVolume(v) ==
    CASE v = 500 -> "0.5"
      [] v = 700 -> "0.7"
      [] v = 1523 -> "1.52"

\* C25 amended: for a room without a player get_player_values returns
\* artist " ", video id " ", the placeholder cover, duration "0", progress
\* "0", volume ".5", title "NOT CONNECTED TO A CHANNEL" and status
\* "UNCONNECTED"; for a player without a current entry it returns the same
\* values except title "NONE", status "STOPPED" and the volume, which is
\* the player's volume rounded to two decimal places.
C25_SnapshotDefaultsPlayerVolume ==
    \A sid \in Rooms :
        /\ ~PlayerBound(sid)
               => get_player_values(sid)
                      = Defaults("NOT CONNECTED TO A CHANNEL", "UNCONNECTED", ".5")
        /\ NoCurrentEntry(sid)
               => get_player_values(sid)
                      = Defaults("NONE", "STOPPED", ShownVolume(players[sid].volume))

\* C25 witness: a player without a current entry whose volume a command set
\* to 0.7 was reported with title NONE, status STOPPED and volume 0.7
C25_Witness ==
    /\ NoCurrentEntry("r1")
    /\ players["r1"].volume = 700
    /\ \E c \in Conns :
           lastSent = <<Frame(c, "67==INFORMATION; ;NONE; ;STOPPED;http://i.imgur.com/nszu54A.jpg;0;0;0.7")>>

\* a step of the session of socket c that ends its connection_maintainer
OwnTeardown(c) ==
    /\ pc[c] \in {"loop", "recv"}
    /\ pc'[c] = "done"
    /\ \/ SessionLoop(c)
       \/ RecvError(c)
       \/ \E f \in Frames : Recv(c, f, FALSE)

\* C26: a client socket is closed only by the teardown of its own session:
\* _broadcast_information, broadcast_message, shutdown and the accepter
\* send on client sockets or drop dictionary entries and close none.
C26_OnlyOwnerCloses ==
    [][/\ \A c \in Conns : closeCalls'[c] # closeCalls[c] => OwnTeardown(c)
       /\ closeCalls' # closeCalls \/ pc' # pc
          => ~(\/ BroadcastStart \/ BroadcastIter \/ BroadcastSend \/ Shutdown
               \/ \E message \in Messages : broadcast_message(message))]_vars

\* C26 witness: the session of u1 closed its socket once and left the
\* user's entry behind; broadcast_message then dropped the entry and the
\* socket was not closed again
C26_Witness ==
    \E c \in Conns :
        /\ closeCalls[c] = 1
        /\ pc[c] = "done"
        /\ author_id[c] = "u1"
        /\ ~DictHas(sockets_by_user, "u1")

\* the frames of at least 3 fields whose server id is not the sentinel
BindingFrames == {f \in Frames : Len(f) >= 3 /\ f[2] # USER_IDENTIFICATION}

\* sockets_by_user.get(u, None) in the dictionary d
EntryOf(d, u) == IF DictHas(d, u) THEN DictGet(d, u) ELSE None

\* C27: sockets_by_user[u] is the connection that most recently sent a
\* frame of at least 3 fields with a server id other than the sentinel and
\* the author id u: such a frame sets the entry of u to its connection, and
\* nothing else, the teardown of another connection included, adds,
\* removes or alters the entry of u.
C27_EntryIsLatestSender ==
    [][/\ \A c \in Conns, f \in BindingFrames, raises \in BOOLEAN :
            Recv(c, f, raises) => EntryOf(sockets_by_user', f[3]) = c
       /\ \A u \in DictKeys(sockets_by_user) \cup DictKeys(sockets_by_user') :
            EntryOf(sockets_by_user', u) # EntryOf(sockets_by_user, u)
            => \E c \in Conns, f \in BindingFrames, raises \in BOOLEAN :
                   f[3] = u /\ Recv(c, f, raises)]_vars

\* the sockets of self.connections
Tracked == {connections[i] : i \in 1..Len(connections)}

\* C28: capacity is released when a connection ends: when the accepter is
\* at its ceiling and the session of a connection meets a terminal
\* condition (an empty read, "exit", a socket error or a malformed frame,
\* also as the first thing the client sends), the connection is removed
\* from self.connections, and while clients are waiting the accepter
\* eventually accepts another one.
C28_CapacityReleased ==
    /\ [][\A c \in Conns :
             AtCapacity /\ TerminalStep(c) => c \notin Tracked']_vars
    /\ \A c \in Conns :
           (pc[c] \in {"done", "aborted"} /\ nextConn < MaxConns)
               ~> (nextConn = MaxConns \/ stop_threads)

\* C29: however the accepter thread and the thread of a session it has
\* just started interleave, self.connections has an entry only for
\* sessions that have not finished their teardown: the accepter never
\* appends the entry of a session that has already searched the list.
C29_NoStaleEntry ==
    \A c \in Tracked : pc[c] # "done"

\* the COMMAND frames of the model whose engine call the session's thread
\* makes itself
DirectFrames ==
    {<<"COMMAND", "r1", "u1", "SKIP">>, <<"COMMAND", "r1", "u1", "PLAY_PAUSE">>}
    \cup {<<"COMMAND", "r1", "u1", "VOLUMECHANGE", x>> : x \in VolumeArgs}

\* the coroutines for the room sid that wait on the engine's loop
Waiting(sid) ==
    {i \in 1..Len(loopQueue) :
        Len(loopQueue[i]) >= 3 /\ loopQueue[i][3] = sid}

\* C30: the commands of one connection take effect on the engine in the
\* order they arrive: when the only connection there has been sends SKIP,
\* PLAY_PAUSE or VOLUMECHANGE for a room and the engine call is made, no
\* coroutine of an earlier command for that room is still waiting to run.
C30_EffectsInArrivalOrder ==
    [][\A c \in Conns, f \in DirectFrames, raises \in BOOLEAN :
          /\ nextConn = 1
          /\ PlayerBound("r1")
          /\ Recv(c, f, raises)
          /\ lastCalls' # <<>>
          => Waiting("r1") = {}]_vars

\* the frame is COMMAND;<server id>;<author id>;SUMMON
IsSummon(f) == Len(f) >= 4 /\ f[4] = "SUMMON"

\* what C31 says of the COMMAND frame f handled by the session of c
CommandWithoutEngine(c, f, raises) ==
    /\ ~PlayerBound(f[2]) /\ ~IsSummon(f)
           => /\ lastCalls' = <<>>
              /\ lastSent' = <<>>
              /\ loopQueue' = loopQueue
              /\ pc'[c] = "loop"
              /\ closeCalls'[c] = 0
    /\ IsSummon(f)
           => /\ loopQueue' = IF raises THEN loopQueue
                               ELSE Append(loopQueue,
                                           <<"submit", "socket_summon", f[2]>>)
              /\ lastSent' = <<>>
              /\ pc'[c] = "loop"
              /\ closeCalls'[c] = 0

\* C31: a COMMAND frame other than SUMMON for a room without a player
\* makes no engine call and sends no reply, and the session goes back to
\* its loop head with its socket open; a SUMMON command submits
\* socket_summon(server_id) to the engine's loop whether or not the room
\* has a player, and a submission that raises is discarded and closes
\* nothing.
C31_CommandWithoutEngine ==
    [][\A c \in Conns, f \in CommandFrames, raises \in BOOLEAN :
          Recv(c, f, raises) => CommandWithoutEngine(c, f, raises)]_vars

\* C31 for the COMMAND frames that name a command
C31_NamedCommandWithoutEngine ==
    [][\A c \in Conns, f \in CommandFrames, raises \in BOOLEAN :
          Len(f) >= 4 /\ Recv(c, f, raises)
          => CommandWithoutEngine(c, f, raises)]_vars

====
